---- MODULE Spec2Model ----
(***************************************************************************)
(* Follower push-notification fan-out of recipes-api                       *)
(* (src/src/services/push_notifications.ts).                               *)
(*                                                                         *)
(* One call of notifyFollowersNewRecipe is a "round".  A round is an async *)
(* function: it runs synchronously from one await to the next, so every    *)
(* action below is one synchronous segment of the code, taken when the     *)
(* awaited store query or HTTP request answers.  rounds[r] holds the       *)
(* locals of the call running in slot r; a slot whose call has returned    *)
(* takes the next call.  All calls share the module-level                  *)
(* cachedAccessToken.                                                      *)
(***************************************************************************)
EXTENDS Integers, Sequences, FiniteSets

\* ------------------------------------------------------------------ bounds
MaxRows == 2            \* rows in the push_tokens table
MaxNow == 1             \* last clock instant, in ticks of TickMs

\* --------------------------------------------------------------- constants
TickMs == 30000         \* granularity of the modelled Date.now()
CacheSkewMs == 60000    \* the 60_000 of getGoogleAccessToken
DefaultExpiresIn == 3600
JwtLifetime == 3600

\* expires_in of a token response; Absent when the field is missing
Absent == -1

\* JavaScript values: an unset environment variable / null result
Unset == "<undefined>"
Null == "<null>"

Truthy(v) == v # Unset /\ v # ""

\* ------------------------------------------------------------ environment
ProjectIdValues == {Unset, "", "recipes-proj"}
ClientEmailValues == {Unset, "", "svc@recipes-proj.iam"}
\* "PEM\\n" is a well-formed key with escaped newlines, as stored in .env
PrivateKeyValues == {Unset, "", "PEM\\n", "garbage"}

\* firebasePrivateKeyRaw?.replace(/\\n/g, '\n')
ReplaceEscapedNewlines(raw) ==
    IF raw = "PEM\\n" THEN "PEM\n" ELSE raw

\* signer.sign(privateKey) succeeds only on a well-formed PEM key
SignThrows(privateKey) == privateKey # "PEM\n"

\* ------------------------------------------------------------------ store
Authors == {"A1", "A2"}
FollowerIdValues == {"U1", "U2", ""}
UserIds == {"U1", "U2"}
DeviceTokenValues == {"T1", "T2", ""}

FollowRows == FollowerIdValues \X {"A1"}
PushTokenRows ==
    [user_id : UserIds, device_token : DeviceTokenValues, is_active : BOOLEAN]

\* The device-token query has no ORDER BY and the code treats its rows
\* alike, so a table is kept in one order: by owner, token, then is_active.
Rank(x, xs) == CHOOSE i \in DOMAIN xs : xs[i] = x
RowRank(row) ==
    Rank(row.user_id, <<"U1", "U2">>) * 6
    + Rank(row.device_token, <<"T1", "T2", "">>) * 2
    + (IF row.is_active THEN 0 ELSE 1)

RECURSIVE TablesUpTo(_)
TablesUpTo(n) ==
    IF n = 0 THEN {<< >>}
    ELSE LET shorter == TablesUpTo(n - 1)
         IN shorter \cup
            {Append(s, row) : s \in shorter, row \in PushTokenRows}

PushTokenTables ==
    {s \in TablesUpTo(MaxRows) :
        \A i \in 1..(Len(s) - 1) : RowRank(s[i]) <= RowRank(s[i + 1])}

\* -------------------------------------------------------------- requests
NotifyFollowersInputs ==
    { [authorId |-> "A1", authorName |-> "Ana", recipeId |-> "R9",
       recipeTitle |-> "Tarta", logger |-> lg] : lg \in BOOLEAN }
    \cup
    { [authorId |-> "A2", authorName |-> "Bob", recipeId |-> "R7",
       recipeTitle |-> "Sopa", logger |-> lg] : lg \in BOOLEAN }

NoInput ==
    [authorId |-> "", authorName |-> "", recipeId |-> "", recipeTitle |-> "",
     logger |-> FALSE]

\* --------------------------------------------------------------- HTTP API
MaxRecipes == 2         \* rows in the recipes table

\* the endpoints whose handlers begin with requireUser
ProtectedRoutes ==
    {"POST /recipes", "PATCH /recipes/:id", "DELETE /recipes/:id",
     "POST /recipes/:id/favorite", "DELETE /recipes/:id/favorite",
     "GET /me/favorites", "POST /me/push-token", "DELETE /me/push-token",
     "POST /users/:id/follow", "DELETE /users/:id/follow",
     "GET /users/:id/followers", "GET /users/:id/following",
     "GET /feed/following"}

\* the body properties that the route's schema requires
RequiredProperties(route) ==
    CASE route = "POST /recipes" -> {"title", "ingredients", "instructions"}
      [] route = "POST /me/push-token" -> {"device_token", "platform"}
      [] route = "DELETE /me/push-token" -> {"device_token"}
      [] OTHER -> {}

\* Authorization headers, each with the array that split(' ') makes of it
AuthorizationValues ==
    {Unset, "", "Bearer", "Bearer tok-A1", "Bearer tok-U1", "Bearer stale",
     "Basic tok-A1", "bearer tok-A1", "Bearer  tok-A1", "tok-A1"}
SplitOnSpace(header) ==
    CASE header = "" -> <<"">>
      [] header = "Bearer" -> <<"Bearer">>
      [] header = "Bearer tok-A1" -> <<"Bearer", "tok-A1">>
      [] header = "Bearer tok-U1" -> <<"Bearer", "tok-U1">>
      [] header = "Bearer stale" -> <<"Bearer", "stale">>
      [] header = "Basic tok-A1" -> <<"Basic", "tok-A1">>
      [] header = "bearer tok-A1" -> <<"bearer", "tok-A1">>
      [] header = "Bearer  tok-A1" -> <<"Bearer", "", "tok-A1">>
      [] header = "tok-A1" -> <<"tok-A1">>

\* any scheme word is taken
GetBearerTokenAnyScheme(authHeader) ==
    IF ~Truthy(authHeader) THEN Null
    ELSE LET parts == SplitOnSpace(authHeader)
             token == IF Len(parts) >= 2 THEN parts[2] ELSE Unset
         IN IF ~Truthy(token) THEN Null ELSE token

\* getBearerToken: const [type, token] = authHeader.split(' ')
GetBearerToken(authHeader) ==
    IF ~Truthy(authHeader) THEN Null
    ELSE LET parts == SplitOnSpace(authHeader)
             type == parts[1]
             token == IF Len(parts) >= 2 THEN parts[2] ELSE Unset
         IN IF type # "Bearer" \/ ~Truthy(token) THEN Null ELSE token

\* the users that supabase.auth.getUser resolves access tokens to
Sessions == [t \in {"tok-A1", "tok-U1"} |->
                IF t = "tok-A1" THEN "A1" ELSE "U1"]

\* JSON bodies: which properties are present, which of them are JSON
\* numbers rather than strings (held by their digits), and their values
TitleValues == {"  ", "Tarta", "5"}
InstructionsValues == {"", "Mezclar"}
IngredientsValues == {<< >>, <<"  ">>, <<"harina", " sal ">>}
CategoryIdsValues == {<< >>, <<"C1">>}
DeviceTokenBodyValues == {"  ", "T1", "T2"}
PlatformValues == {"android", "fax"}
NoBody ==
    [present |-> {}, numbers |-> {}, title |-> "", instructions |-> "",
     ingredients |-> << >>, category_ids |-> << >>,
     device_token |-> "", platform |-> ""]
RecipeBodies ==
    {b \in [present : SUBSET {"title", "ingredients", "instructions",
                              "category_ids"},
            numbers : SUBSET {"title"},
            title : TitleValues \cup {""},
            instructions : InstructionsValues,
            ingredients : IngredientsValues,
            category_ids : CategoryIdsValues,
            device_token : {""}, platform : {""}] :
        /\ "title" \notin b.present => b.title = ""
        /\ "title" \in b.present => b.title # ""
        /\ b.numbers \subseteq b.present
        /\ "title" \in b.numbers <=> b.title = "5"
        /\ "instructions" \notin b.present => b.instructions = ""
        /\ "ingredients" \notin b.present => b.ingredients = << >>
        /\ "category_ids" \notin b.present => b.category_ids = << >>}
PushTokenBodies ==
    {b \in [present : SUBSET {"device_token", "platform"},
            numbers : {{}}, title : {""}, instructions : {""},
            ingredients : {<< >>}, category_ids : {<< >>},
            device_token : DeviceTokenBodyValues \cup {""},
            platform : PlatformValues \cup {""}] :
        /\ "device_token" \in b.present <=> b.device_token # ""
        /\ "platform" \in b.present <=> b.platform # ""}
Bodies(route) ==
    CASE route \in {"POST /recipes", "PATCH /recipes/:id"} -> RecipeBodies
      [] route = "POST /me/push-token" -> PushTokenBodies
      [] route = "DELETE /me/push-token" ->
            {b \in PushTokenBodies : "platform" \notin b.present}
      [] OTHER -> {NoBody}

\* Fastify validates the body against the route's schema before the
\* handler: the required properties, and the enum of platform
SchemaValid(route, body) ==
    /\ RequiredProperties(route) \subseteq body.present
    /\ route = "POST /me/push-token" =>
          body.platform \in {"android", "ios", "web"}

\* the :id of a request: the first recipe id, or one that no recipe has
ParamIds(route) ==
    IF route \in {"PATCH /recipes/:id", "DELETE /recipes/:id"}
    THEN {"R1", "R0"} ELSE {""}

\* The validator coerces a scalar to the type that the schema declares
\* (Fastify's default coerceTypes): a number sent for a string property
\* reaches the handler as the string of its digits.
CoerceTypes(body) == [body EXCEPT !.numbers = {}]

\* String.prototype.trim on the strings of the model
Trim(str) ==
    CASE str = "  " -> ""
      [] str = " sal " -> "sal"
      [] OTHER -> str

\* typeof value === 'string' ? value.trim() : ''
TrimmedString(body, property, value) ==
    IF property \in body.numbers THEN "" ELSE Trim(value)

\* .map((item) => item.trim()).filter((item) => item.length > 0)
TrimIngredients(items) ==
    LET trimmed == [i \in DOMAIN items |-> Trim(items[i])]
        NonEmpty(item) == item # ""
    IN SelectSeq(trimmed, NonEmpty)

RecipeIdValues == <<"R1", "R2", "R3">>

\* PATCH /recipes/:id, lines 416-442: a property that is present must be a
\* non-blank string (ingredients: hold a non-blank string)
PatchInvalid(body) ==
    \/ "title" \in body.present /\ TrimmedString(body, "title", body.title) = ""
    \/ /\ "instructions" \in body.present
       /\ TrimmedString(body, "instructions", body.instructions) = ""
    \/ /\ "ingredients" \in body.present
       /\ Len(TrimIngredients(body.ingredients)) = 0

\* Object.keys(payload), and shouldUpdateCategories (lines 451-460)
PayloadKeys(body) == body.present \cap {"title", "instructions", "ingredients"}
ShouldUpdateCategories(body) == "category_ids" \in body.present

\* .update(payload).eq('id', id) applied to a recipe row
ApplyPayload(row, body) ==
    [row EXCEPT
        !.title = IF "title" \in body.present THEN Trim(body.title) ELSE @,
        !.instructions = IF "instructions" \in body.present
                         THEN Trim(body.instructions) ELSE @,
        !.ingredients = IF "ingredients" \in body.present
                        THEN TrimIngredients(body.ingredients) ELSE @]

\* .upsert(row, { onConflict: 'device_token' }): the row that holds the
\* device token is replaced, or the row is added
UpsertPushToken(table, row) ==
    IF \E i \in DOMAIN table : table[i].device_token = row.device_token
    THEN [i \in DOMAIN table |->
            IF table[i].device_token = row.device_token THEN row ELSE table[i]]
    ELSE Append(table, row)

\* an update that does not look at the owner of the row
DeactivatePushTokenOfAnyone(table, userId, deviceToken) ==
    [i \in DOMAIN table |->
        IF table[i].device_token = deviceToken
        THEN [table[i] EXCEPT !.is_active = FALSE] ELSE table[i]]

\* .update({ is_active: false }).eq('user_id', user.id)
\*   .eq('device_token', deviceToken)
DeactivatePushToken(table, userId, deviceToken) ==
    [i \in DOMAIN table |->
        IF table[i].user_id = userId /\ table[i].device_token = deviceToken
        THEN [table[i] EXCEPT !.is_active = FALSE] ELSE table[i]]

EmptyDb == [recipes |-> {}, recipe_categories |-> {}]
\* before is history: the tables as they were when the request arrived
IdleHttp ==
    [pc |-> "idle", route |-> "", id |-> "", authorization |-> Unset,
     body |-> NoBody, user |-> Null, status |-> 0, authCalls |-> 0,
     storeOps |-> 0, recipeId |-> "", before |-> EmptyDb]

VARIABLES
    env,                \* process.env and the adminSupabase client
    follows,            \* the follows table: <<follower_id, followed_id>>
    push_tokens,        \* the push_tokens table, a sequence of rows
    now,                \* the latest reading of Date.now(), in ticks
    cachedAccessToken,  \* << >> for null, else <<[token, expiresAtMs]>>
    rounds,             \* per call: program counter, locals and history
    http,               \* the HTTP request in hand: position, locals, reply
    db                  \* the recipes and recipe_categories tables

vars == <<env, follows, push_tokens, now, cachedAccessToken, rounds, http, db>>

IdleRound ==
    [pc |-> "idle", input |-> NoInput,
     followerIds |-> {}, tokenRows |-> << >>, tokens |-> << >>,
     now |-> 0, assertion |-> << >>, expires_in |-> Absent,
     accessToken |-> Null, sends |-> << >>,
     followerQueries |-> 0, tokenQueries |-> 0, tokenRequests |-> 0,
     sendRequests |-> 0, cacheHit |-> FALSE, logs |-> {}]

\* The call is over (how: "returned", or "raised" when it rejects): its
\* locals are gone; what it asked of the store and the network, and what
\* it logged, stays on record.
Finish(rec, how) ==
    [IdleRound EXCEPT !.pc = how,
                      !.input = rec.input,
                      !.followerQueries = rec.followerQueries,
                      !.tokenQueries = rec.tokenQueries,
                      !.tokenRequests = rec.tokenRequests,
                      !.sendRequests = rec.sendRequests,
                      !.cacheHit = rec.cacheHit,
                      !.logs = rec.logs]

\* input.logger?.warn / input.logger?.error
Log(rec, entry) ==
    IF rec.input.logger THEN [rec EXCEPT !.logs = @ \cup {entry}] ELSE rec

Envs ==
    [adminSupabase : BOOLEAN,
     FIREBASE_PROJECT_ID : ProjectIdValues,
     FIREBASE_CLIENT_EMAIL : ClientEmailValues,
     FIREBASE_PRIVATE_KEY : PrivateKeyValues]

\* the environments that pass both guards of lines 32-44
ConfiguredEnvs ==
    {e \in Envs : /\ e.adminSupabase
                  /\ e.FIREBASE_PROJECT_ID \notin {Unset, ""}
                  /\ e.FIREBASE_CLIENT_EMAIL \notin {Unset, ""}
                  /\ e.FIREBASE_PRIVATE_KEY \notin {Unset, ""}}

\* the store of the end-to-end scenario: U1 and U2 follow A1, U1 holds T1
\* and T2, U2 shares T1 and has one inactive token
ScenarioFollows == {<<"U1", "A1">>, <<"U2", "A1">>}
ScenarioPushTokens ==
    << [user_id |-> "U1", device_token |-> "T1", is_active |-> TRUE],
       [user_id |-> "U1", device_token |-> "T2", is_active |-> TRUE],
       [user_id |-> "U2", device_token |-> "T1", is_active |-> TRUE],
       [user_id |-> "U2", device_token |-> "T3", is_active |-> FALSE] >>

\* One call at a time, in a process that starts with an empty token cache.
\* Either the process has any configured environment and any store, and
\* starts at the last instant (every call then reads the same time); or it
\* has any environment and the scenario store, and starts at instant 0.
Init ==
    /\ \/ /\ env \in ConfiguredEnvs
          /\ follows \in SUBSET FollowRows
          /\ push_tokens \in PushTokenTables
          /\ now = MaxNow
       \/ /\ env \in Envs
          /\ follows = ScenarioFollows
          /\ push_tokens = ScenarioPushTokens
          /\ now = 0
    /\ cachedAccessToken = << >>
    /\ rounds = [r \in {1} |-> IdleRound]
    /\ http = IdleHttp
    /\ db = EmptyDb

\* ---------------------------------------------------------- store queries
\* .from('follows').select('follower_id').eq('followed_id', authorId)
FollowerQuery(authorId) ==
    {row[1] : row \in {f \in follows : f[2] = authorId}}

\* the follower ids without the Boolean filter
FilterFollowerIdsKeepingEmpty(ids) == ids

\* .map((row) => row.follower_id).filter((id) => Boolean(id))
FilterFollowerIds(ids) == {id \in ids : Truthy(id)}

\* the device-token query without .eq('is_active', true)
TokenQueryAnyStatus(followerIds) ==
    LET Matches(row) == row.user_id \in followerIds
        rows == SelectSeq(push_tokens, Matches)
    IN [i \in DOMAIN rows |-> rows[i].device_token]

\* .from('push_tokens').select('device_token').eq('is_active', true)
\*   .in('user_id', followerIds)
TokenQuery(followerIds) ==
    LET Matches(row) == row.is_active /\ row.user_id \in followerIds
        rows == SelectSeq(push_tokens, Matches)
    IN [i \in DOMAIN rows |-> rows[i].device_token]

\* the token strings without the Boolean filter
FilterTokensKeepingEmpty(deviceTokens) == deviceTokens

\* .filter((token) => Boolean(token))
FilterTokens(deviceTokens) ==
    LET NonEmpty(t) == Truthy(t) IN SelectSeq(deviceTokens, NonEmpty)

\* the array without the Set
ArrayKeepingDuplicates(xs) == xs

\* Array.from(new Set(xs)): first occurrences, in insertion order
RECURSIVE ArrayFromSet(_)
ArrayFromSet(xs) ==
    IF Len(xs) = 0 THEN << >>
    ELSE LET front == ArrayFromSet(SubSeq(xs, 1, Len(xs) - 1))
             last == xs[Len(xs)]
         IN IF \E i \in DOMAIN front : front[i] = last
            THEN front ELSE Append(front, last)

\* ------------------------------------------------------------ token cache
\* the comparison turned around
CacheFreshInverted(cache, nowMs) ==
    /\ Len(cache) = 1
    /\ cache[1].expiresAtMs - CacheSkewMs < nowMs

\* >= for >
CacheFreshAtEdge(cache, nowMs) ==
    /\ Len(cache) = 1
    /\ cache[1].expiresAtMs - CacheSkewMs >= nowMs

\* the expiry is not looked at
CacheFreshIgnoringExpiry(cache, nowMs) == Len(cache) = 1

\* the 60 second margin is left out
CacheFreshWithoutSkew(cache, nowMs) ==
    /\ Len(cache) = 1
    /\ cache[1].expiresAtMs > nowMs

\* cachedAccessToken && cachedAccessToken.expiresAtMs - 60_000 > now
CacheFresh(cache, nowMs) ==
    /\ Len(cache) = 1
    /\ cache[1].expiresAtMs - CacheSkewMs > nowMs

\* an assertion stamped in milliseconds
CreateServiceAccountJwtInMs(clientEmail, nowMs) ==
    LET iat == nowMs
    IN [iss |-> clientEmail, sub |-> clientEmail, iat |-> iat,
        exp |-> iat + JwtLifetime]

\* Math.floor(Date.now() / 1000) and the claims of the signed assertion
CreateServiceAccountJwt(clientEmail, nowMs) ==
    LET iat == nowMs \div 1000
    IN [iss |-> clientEmail, sub |-> clientEmail, iat |-> iat,
        exp |-> iat + JwtLifetime]

ExpiresInValues == {Absent, 0, 60, 90}

\* tokenResponse.expires_in ?? 3600
ExpiresIn(expires_in) ==
    IF expires_in = Absent THEN DefaultExpiresIn ELSE expires_in

\* an expiry that adds the lifetime in seconds to a time in milliseconds
NewCacheEntryInSeconds(token, callNowMs, expires_in) ==
    [token |-> token, expiresAtMs |-> callNowMs + ExpiresIn(expires_in)]

\* the entry written at lines 251-254
NewCacheEntry(token, callNowMs, expires_in) ==
    [token |-> token, expiresAtMs |-> callNowMs + ExpiresIn(expires_in) * 1000]

\* getGoogleAccessToken up to its first await, run by round record rec
\* when Date.now() reads nowMs
GetGoogleAccessTokenCall(rec, nowMs) ==
    LET privateKey == ReplaceEscapedNewlines(env.FIREBASE_PRIVATE_KEY)
        called == [rec EXCEPT !.now = nowMs]
    IN IF CacheFresh(cachedAccessToken, nowMs)
       THEN [called EXCEPT !.accessToken = cachedAccessToken[1].token,
                           !.cacheHit = TRUE,
                           !.pc = "got_token"]
       ELSE IF SignThrows(privateKey)
       THEN Finish(called, "raised")
       ELSE [called EXCEPT
                !.assertion =
                    <<CreateServiceAccountJwt(env.FIREBASE_CLIENT_EMAIL, nowMs)>>,
                !.tokenRequests = @ + 1,
                !.pc = "await_exchange"]

\* ------------------------------------------------------------- the round
\* if (!adminSupabase): supabaseServiceRoleKey was unset or empty
AdminSupabaseMissing(e) == ~e.adminSupabase

\* the guard without !firebasePrivateKey
FirebaseConfigMissingNoKeyCheck(e) ==
    \/ ~Truthy(e.FIREBASE_PROJECT_ID)
    \/ ~Truthy(e.FIREBASE_CLIENT_EMAIL)

\* if (!firebaseProjectId || !firebaseClientEmail || !firebasePrivateKey)
FirebaseConfigMissing(e) ==
    \/ ~Truthy(e.FIREBASE_PROJECT_ID)
    \/ ~Truthy(e.FIREBASE_CLIENT_EMAIL)
    \/ ~Truthy(ReplaceEscapedNewlines(e.FIREBASE_PRIVATE_KEY))

\* a call that tests the gateway configuration before the store credential
CallGatewayGuardFirst(r, input) ==
    /\ rounds[r].pc \in {"idle", "returned", "raised"}
    /\ LET rec == [IdleRound EXCEPT !.input = input]
       IN rounds' = [rounds EXCEPT ![r] =
            IF FirebaseConfigMissing(env)
            THEN Finish(Log(rec, [level |-> "warn",
                                  msg |-> "missing firebase config",
                                  token |-> ""]), "returned")
            ELSE IF AdminSupabaseMissing(env)
            THEN Finish(Log(rec, [level |-> "warn",
                                  msg |-> "no service role key",
                                  token |-> ""]), "returned")
            ELSE [rec EXCEPT !.followerQueries = @ + 1,
                             !.pc = "await_followers"]]
    /\ UNCHANGED <<http, db, env, follows, push_tokens, now, cachedAccessToken>>

\* lines 27-49: the two configuration guards, then the follower query
Call(r, input) ==
    /\ rounds[r].pc \in {"idle", "returned", "raised"}
    /\ LET rec == [IdleRound EXCEPT !.input = input]
       IN rounds' = [rounds EXCEPT ![r] =
            IF AdminSupabaseMissing(env)
            THEN Finish(Log(rec, [level |-> "warn",
                                  msg |-> "no service role key",
                                  token |-> ""]), "returned")
            ELSE IF FirebaseConfigMissing(env)
            THEN Finish(Log(rec, [level |-> "warn",
                                  msg |-> "missing firebase config",
                                  token |-> ""]), "returned")
            ELSE [rec EXCEPT !.followerQueries = @ + 1,
                             !.pc = "await_followers"]]
    /\ UNCHANGED <<http, db, env, follows, push_tokens, now, cachedAccessToken>>

QueryAnswers == {"error", "null", "rows"}

\* the follower query answers, and an error is logged but not returned on
FollowersAnswerIgnoringError(r, answer) ==
    /\ rounds[r].pc = "await_followers"
    /\ LET rec == IF answer = "error"
                  THEN Log(rounds[r], [level |-> "error",
                                       msg |-> "failed to load followers",
                                       token |-> ""])
                  ELSE rounds[r]
           followerIds ==
               IF answer = "null" THEN {}
               ELSE FilterFollowerIds(FollowerQuery(rec.input.authorId))
       IN rounds' = [rounds EXCEPT ![r] =
            IF followerIds = {}
            THEN Finish(rec, "returned")
            ELSE [rec EXCEPT !.followerIds = followerIds,
                             !.tokenQueries = @ + 1,
                             !.pc = "await_tokens"]]
    /\ UNCHANGED <<http, db, env, follows, push_tokens, now, cachedAccessToken>>

\* lines 51-68: the follower query answers
FollowersAnswer(r, answer) ==
    /\ rounds[r].pc = "await_followers"
    /\ LET rec == rounds[r]
           followerIds ==
               IF answer = "null" THEN {}
               ELSE FilterFollowerIds(FollowerQuery(rec.input.authorId))
       IN rounds' = [rounds EXCEPT ![r] =
            IF answer = "error"
            THEN Finish(Log(rec, [level |-> "error",
                                  msg |-> "failed to load followers",
                                  token |-> ""]), "returned")
            ELSE IF followerIds = {}
            THEN Finish(rec, "returned")
            ELSE [rec EXCEPT !.followerIds = followerIds,
                             !.tokenQueries = @ + 1,
                             !.pc = "await_tokens"]]
    /\ UNCHANGED <<http, db, env, follows, push_tokens, now, cachedAccessToken>>

\* lines 70-91 and 210-229: the device-token query answers at instant t;
\* time is read only by getGoogleAccessToken, and never runs backwards
TokensAnswer(r, answer, t) ==
    /\ rounds[r].pc = "await_tokens"
    /\ t \in now..MaxNow
    /\ now' = IF answer = "rows" THEN t ELSE now
    /\ LET rec == rounds[r]
           tokenRows ==
               IF answer = "rows" THEN TokenQuery(rec.followerIds) ELSE << >>
           tokens == ArrayFromSet(FilterTokens(tokenRows))
       IN rounds' = [rounds EXCEPT ![r] =
            IF answer = "error"
            THEN Finish(Log(rec, [level |-> "error",
                                  msg |-> "failed to load push tokens",
                                  token |-> ""]), "returned")
            ELSE IF Len(tokens) = 0
            THEN Finish(rec, "returned")
            ELSE GetGoogleAccessTokenCall(
                    [rec EXCEPT !.tokenRows = tokenRows, !.tokens = tokens],
                    t * TickMs)]
    /\ UNCHANGED <<http, db, env, follows, push_tokens, cachedAccessToken>>

\* a non-success status (lines 231-238), a body without access_token (lines
\* 245-248), or an exception from fetch, response.text() or response.json()
\* that the catch of lines 257-260 takes
ExchangeFailures == {"http_error", "no_access_token", "threw"}

\* a failed exchange that clears the cached entry
ExchangeFailsClearingCache(r, failure) ==
    /\ rounds[r].pc = "await_exchange"
    /\ cachedAccessToken' = << >>
    /\ LET level == IF failure = "threw" THEN "error" ELSE "warn"
       IN rounds' = [rounds EXCEPT ![r] =
            [Log(rounds[r], [level |-> level, msg |-> failure, token |-> ""])
                EXCEPT !.accessToken = Null, !.pc = "got_token"]]
    /\ UNCHANGED <<http, db, env, follows, push_tokens, now>>

\* lines 231-248 and 257-260: the token endpoint answers without a token
ExchangeFails(r, failure) ==
    /\ rounds[r].pc = "await_exchange"
    /\ LET level == IF failure = "threw" THEN "error" ELSE "warn"
       IN rounds' = [rounds EXCEPT ![r] =
            [Log(rounds[r], [level |-> level, msg |-> failure, token |-> ""])
                EXCEPT !.accessToken = Null, !.pc = "got_token"]]
    /\ UNCHANGED <<http, db, env, follows, push_tokens, now, cachedAccessToken>>

\* access_token of a token response: the endpoint never repeats a token
\* that the process still holds
AccessTokenValues == <<"ya29.a", "ya29.b", "ya29.c", "ya29.d">>
HeldAccessTokens ==
    {cachedAccessToken[i].token : i \in DOMAIN cachedAccessToken}
    \cup {rounds[r].accessToken : r \in DOMAIN rounds}
NewAccessToken ==
    LET free == {i \in DOMAIN AccessTokenValues :
                    AccessTokenValues[i] \notin HeldAccessTokens}
    IN AccessTokenValues[CHOOSE i \in free : \A j \in free : i <= j]

\* an exchange that leaves an entry already in the cache alone
ExchangeSucceedsFirstWriter(r, expires_in) ==
    /\ rounds[r].pc = "await_exchange"
    /\ cachedAccessToken' =
           IF cachedAccessToken # << >> THEN cachedAccessToken
           ELSE <<NewCacheEntry(NewAccessToken, rounds[r].now, expires_in)>>
    /\ rounds' = [rounds EXCEPT ![r].expires_in = expires_in,
                                ![r].accessToken = NewAccessToken,
                                ![r].pc = "got_token"]
    /\ UNCHANGED <<http, db, env, follows, push_tokens, now>>

\* an exchange that adds its entry to the cache beside the one held
ExchangeSucceedsAppending(r, expires_in) ==
    /\ rounds[r].pc = "await_exchange"
    /\ cachedAccessToken' =
           Append(cachedAccessToken,
                  NewCacheEntry(NewAccessToken, rounds[r].now, expires_in))
    /\ rounds' = [rounds EXCEPT ![r].expires_in = expires_in,
                                ![r].accessToken = NewAccessToken,
                                ![r].pc = "got_token"]
    /\ UNCHANGED <<http, db, env, follows, push_tokens, now>>

\* lines 240-256: the token endpoint answers with a new access token
ExchangeSucceeds(r, expires_in) ==
    /\ rounds[r].pc = "await_exchange"
    /\ cachedAccessToken' =
           <<NewCacheEntry(NewAccessToken, rounds[r].now, expires_in)>>
    /\ rounds' = [rounds EXCEPT ![r].expires_in = expires_in,
                                ![r].accessToken = NewAccessToken,
                                ![r].pc = "got_token"]
    /\ UNCHANGED <<http, db, env, follows, push_tokens, now>>

\* a message whose data fields recipe_id and author_id are exchanged
FcmRequestSwappedIds(token, input, accessToken) ==
    [token |-> token,
     title |-> "Nueva receta de " \o input.authorName,
     body |-> input.recipeTitle,
     data |-> [type |-> "new_recipe", recipe_id |-> input.authorId,
               author_id |-> input.recipeId],
     projectId |-> env.FIREBASE_PROJECT_ID,
     bearer |-> accessToken,
     st |-> "inflight"]

\* a send that reads the bearer token from the cache when it is issued
FcmRequestFromCache(token, input, accessToken) ==
    [token |-> token,
     title |-> "Nueva receta de " \o input.authorName,
     body |-> input.recipeTitle,
     data |-> [type |-> "new_recipe", recipe_id |-> input.recipeId,
               author_id |-> input.authorId],
     projectId |-> env.FIREBASE_PROJECT_ID,
     bearer |-> cachedAccessToken[1].token,
     st |-> "inflight"]

\* the body handed to fetch by sendFcmV1, lines 126-147
FcmRequest(token, input, accessToken) ==
    [token |-> token,
     title |-> "Nueva receta de " \o input.authorName,
     body |-> input.recipeTitle,
     data |-> [type |-> "new_recipe", recipe_id |-> input.recipeId,
               author_id |-> input.authorId],
     projectId |-> env.FIREBASE_PROJECT_ID,
     bearer |-> accessToken,
     st |-> "inflight"]

\* tokens.map((token) => sendFcmV1(token, ...)): every fetch is issued
StartSends(tokens, input, accessToken) ==
    [i \in DOMAIN tokens |-> FcmRequest(tokens[i], input, accessToken)]

\* the round without the if (!accessToken) return of lines 93-95
DispatchWithoutToken(r) ==
    /\ rounds[r].pc = "got_token"
    /\ LET rec == rounds[r]
       IN rounds' = [rounds EXCEPT ![r] =
            [rec EXCEPT
                !.expires_in = Absent,
                !.sends = StartSends(rec.tokens, rec.input, rec.accessToken),
                !.sendRequests = @ + Len(rec.tokens),
                !.pc = "sending"]]
    /\ UNCHANGED <<http, db, env, follows, push_tokens, now, cachedAccessToken>>

\* lines 93-112: notifyFollowersNewRecipe resumes with the access token
Dispatch(r) ==
    /\ rounds[r].pc = "got_token"
    /\ LET rec == rounds[r]
       IN rounds' = [rounds EXCEPT ![r] =
            IF rec.accessToken = Null
            THEN Finish(rec, "returned")
            ELSE [rec EXCEPT
                    !.expires_in = Absent,
                    !.sends = StartSends(rec.tokens, rec.input, rec.accessToken),
                    !.sendRequests = @ + Len(rec.tokens),
                    !.pc = "sending"]]
    /\ UNCHANGED <<http, db, env, follows, push_tokens, now, cachedAccessToken>>

\* a success status, a non-success status (lines 150-156), or an exception
\* from fetch or response.text() that the catch of lines 157-159 takes
SendOutcomes == {"ok", "http_error", "threw"}

SendFailures == SendOutcomes \ {"ok"}

\* a rejection that leaves sendFcmV1 and makes Promise.all give up the rest
AfterSendUncaught(sends, i, outcome) ==
    [j \in DOMAIN sends |->
        IF j = i THEN [sends[j] EXCEPT !.st = outcome]
        ELSE IF outcome \in SendFailures /\ sends[j].st = "inflight"
        THEN [sends[j] EXCEPT !.st = "abandoned"]
        ELSE sends[j]]

\* a failed send that is issued again
AfterSendRetrying(sends, i, outcome) ==
    IF outcome \in SendFailures
    THEN Append([sends EXCEPT ![i].st = outcome],
                [sends[i] EXCEPT !.st = "inflight"])
    ELSE [sends EXCEPT ![i].st = outcome]

\* the sends of a round after send i finished with outcome (lines 150-159):
\* the try/catch keeps the outcome inside sendFcmV1
AfterSend(sends, i, outcome) ==
    [sends EXCEPT ![i].st = outcome]

\* lines 126-159: the send endpoint answers send i of round r
SendAnswer(r, i, outcome) ==
    /\ rounds[r].pc = "sending"
    /\ i \in DOMAIN rounds[r].sends
    /\ rounds[r].sends[i].st = "inflight"
    /\ LET rec == rounds[r]
           logged ==
               IF outcome = "ok" THEN rec
               ELSE Log(rec, [level |-> IF outcome = "http_error"
                                        THEN "warn" ELSE "error",
                              msg |-> outcome,
                              token |-> rec.sends[i].token])
       IN rounds' = [rounds EXCEPT ![r] =
            [logged EXCEPT !.sends = AfterSend(rec.sends, i, outcome)]]
    /\ UNCHANGED <<http, db, env, follows, push_tokens, now, cachedAccessToken>>

\* a join that gives up as soon as one send has failed
JoinUntilFailure(r) ==
    /\ rounds[r].pc = "sending"
    /\ \/ \A i \in DOMAIN rounds[r].sends : rounds[r].sends[i].st # "inflight"
       \/ \E i \in DOMAIN rounds[r].sends :
             rounds[r].sends[i].st \in SendFailures
    /\ rounds' = [rounds EXCEPT ![r] = Finish(rounds[r], "returned")]
    /\ UNCHANGED <<http, db, env, follows, push_tokens, now, cachedAccessToken>>

\* await Promise.all(...): every sendFcmV1 promise has resolved
JoinAll(r) ==
    /\ rounds[r].pc = "sending"
    /\ \A i \in DOMAIN rounds[r].sends : rounds[r].sends[i].st # "inflight"
    /\ rounds' = [rounds EXCEPT ![r] = Finish(rounds[r], "returned")]
    /\ UNCHANGED <<http, db, env, follows, push_tokens, now, cachedAccessToken>>

Next ==
    \/ \E r \in DOMAIN rounds, input \in NotifyFollowersInputs : Call(r, input)
    \/ \E r \in DOMAIN rounds, answer \in QueryAnswers : FollowersAnswer(r, answer)
    \/ \E r \in DOMAIN rounds, answer \in QueryAnswers, t \in 0..MaxNow :
          TokensAnswer(r, answer, t)
    \/ \E r \in DOMAIN rounds, failure \in ExchangeFailures : ExchangeFails(r, failure)
    \/ \E r \in DOMAIN rounds, expires_in \in ExpiresInValues :
          ExchangeSucceeds(r, expires_in)
    \/ \E r \in DOMAIN rounds : Dispatch(r)
    \/ \E r \in DOMAIN rounds, i \in 1..MaxRows, outcome \in SendOutcomes :
          SendAnswer(r, i, outcome)
    \/ \E r \in DOMAIN rounds : JoinAll(r)

Spec == Init /\ [][Next]_vars

\* ------------------------------------------------------- request handling
\* One request is followed.  POST /recipes, PATCH and DELETE /recipes/:id
\* and the two /me/push-token handlers are followed to their reply; the
\* other protected handlers through requireUser up to their first store
\* call.
Reply(req, status) == [req EXCEPT !.pc = "replied", !.status = status]

\* lines 236-279 of recipes.ts: the handler of POST /recipes between
\* requireUser and the insert
CreateRecipeValidate(req) ==
    LET body == CoerceTypes(req.body)
        title == TrimmedString(body, "title", body.title)
        instructions == TrimmedString(body, "instructions", body.instructions)
        ingredients == TrimIngredients(body.ingredients)
    IN IF title = "" \/ instructions = "" \/ Len(ingredients) = 0
       THEN Reply(req, 400)
       ELSE [req EXCEPT !.storeOps = @ + 1, !.pc = "await_insert"]

\* lines 102-116 of me.ts: the handler of POST /me/push-token between
\* requireUser and the upsert
RegisterPushTokenValidate(req) ==
    LET deviceToken == Trim(req.body.device_token)
        platform == Trim(req.body.platform)
    IN IF deviceToken = "" THEN Reply(req, 400)
       ELSE IF platform \notin {"android", "ios", "web"} THEN Reply(req, 400)
       ELSE [req EXCEPT !.storeOps = @ + 1, !.pc = "await_upsert"]

\* lines 166-172 of me.ts: the handler of DELETE /me/push-token between
\* requireUser and the update
RemovePushTokenValidate(req) ==
    LET deviceToken == Trim(req.body.device_token)
    IN IF deviceToken = "" THEN Reply(req, 400)
       ELSE [req EXCEPT !.storeOps = @ + 1, !.pc = "await_deactivate"]

\* A request arrives: Fastify validates it against the route's schema, the
\* handler starts, and requireUser reads the Authorization header (lines
\* 80-92 of utils/auth) and asks the auth service for the token's user.
Receive(route, id, authorization, body) ==
    /\ http.pc = "idle"
    /\ id \in ParamIds(route)
    /\ body \in Bodies(route)
    /\ LET req == [IdleHttp EXCEPT !.route = route,
                                   !.id = id,
                                   !.authorization = authorization,
                                   !.body = body,
                                   !.before = db]
       IN http' =
            IF ~SchemaValid(route, body) THEN Reply(req, 400)
            ELSE IF GetBearerToken(authorization) = Null THEN Reply(req, 401)
            ELSE [req EXCEPT !.authCalls = @ + 1, !.pc = "await_user"]
    /\ UNCHANGED <<db, env, follows, push_tokens, now, cachedAccessToken, rounds>>

UserAnswers == {"error", "no_user", "user"}

\* supabase.auth.getUser answers (lines 94-99 of utils/auth), and the
\* handler runs on to its first store call
UserAnswer(answer) ==
    /\ http.pc = "await_user"
    /\ LET token == GetBearerToken(http.authorization)
       IN /\ answer = "user" => token \in DOMAIN Sessions
          /\ http' =
               IF answer # "user" THEN Reply(http, 401)
               ELSE LET req == [http EXCEPT !.user = Sessions[token]]
                    IN CASE req.route = "POST /recipes" ->
                              CreateRecipeValidate(req)
                         [] req.route \in {"PATCH /recipes/:id",
                                           "DELETE /recipes/:id"} ->
                              [req EXCEPT !.storeOps = @ + 1,
                                          !.pc = "await_existing"]
                         [] req.route = "POST /me/push-token" ->
                              RegisterPushTokenValidate(req)
                         [] req.route = "DELETE /me/push-token" ->
                              RemovePushTokenValidate(req)
                         [] OTHER ->
                              [req EXCEPT !.storeOps = @ + 1,
                                          !.pc = "await_store"]
    /\ UNCHANGED <<db, env, follows, push_tokens, now, cachedAccessToken, rounds>>

\* (value) => typeof value === 'number' || typeof value === 'string'
NormalizeCategoryIds(body) ==
    IF "category_ids" \in body.present THEN body.category_ids ELSE << >>

\* lines 281-304 and 337-342 of recipes.ts: the insert answers
InsertAnswer(ok) ==
    /\ http.pc = "await_insert"
    /\ IF ~ok
       THEN /\ http' = Reply(http, 500)
            /\ db' = db
       ELSE LET id == RecipeIdValues[Cardinality(db.recipes) + 1]
                row == [id |-> id, owner_id |-> http.user,
                        title |-> Trim(http.body.title),
                        instructions |-> Trim(http.body.instructions),
                        ingredients |-> TrimIngredients(http.body.ingredients)]
                linked == Len(NormalizeCategoryIds(http.body)) > 0
            IN /\ db' = [db EXCEPT !.recipes = @ \cup {row}]
               /\ http' = [http EXCEPT
                             !.recipeId = id,
                             !.storeOps = @ + 1,
                             !.status = IF linked THEN 0 ELSE 201,
                             !.pc = IF linked THEN "await_links"
                                    ELSE "await_owner"]
    /\ UNCHANGED <<env, follows, push_tokens, now, cachedAccessToken, rounds>>

\* lines 306-314: the upsert of the category links answers
LinksAnswer(ok) ==
    /\ http.pc = "await_links"
    /\ IF ~ok
       THEN /\ http' = Reply(http, 500)
            /\ db' = db
       ELSE LET ids == NormalizeCategoryIds(http.body)
                links == {<<http.recipeId, ids[i]>> : i \in DOMAIN ids}
            IN /\ db' = [db EXCEPT !.recipe_categories = @ \cup links]
               /\ http' = [http EXCEPT !.storeOps = @ + 1,
                                       !.pc = "await_reread"]
    /\ UNCHANGED <<env, follows, push_tokens, now, cachedAccessToken, rounds>>

\* lines 316-324: the recipe is read back with its categories
RereadAnswer(ok) ==
    /\ http.pc = "await_reread"
    /\ http' = IF ~ok THEN Reply(http, 500)
               ELSE [http EXCEPT !.storeOps = @ + 1, !.pc = "await_owner"]
    /\ UNCHANGED <<db, env, follows, push_tokens, now, cachedAccessToken, rounds>>

\* lines 326-335 and 344-351: the owner's profile is read, and the
\* handler replies
OwnerAnswer(ok) ==
    /\ http.pc = "await_owner"
    /\ http' = Reply(http, IF ok THEN 201 ELSE 500)
    /\ UNCHANGED <<db, env, follows, push_tokens, now, cachedAccessToken, rounds>>

\* ------------------------------------------ PATCH and DELETE /recipes/:id
\* .from('recipes').select('id,owner_id').eq('id', id).maybeSingle()
ExistingRecipe(id) == {row \in db.recipes : row.id = id}

ExistingAnswers == {"error", "data"}

\* a lookup whose owner_id is not compared with the caller
OwnerCheckOfAnyone(req, answer) ==
    IF answer = "error" THEN 500
    ELSE IF ExistingRecipe(req.id) = {} THEN 404
    ELSE 0

\* lines 397-407 and 561-571 of recipes.ts: the status that the ownership
\* lookup leads to, 0 when the handler goes on
OwnerCheck(req, answer) ==
    IF answer = "error" THEN 500
    ELSE IF ExistingRecipe(req.id) = {} THEN 404
    ELSE IF \E row \in ExistingRecipe(req.id) : row.owner_id # req.user
    THEN 403
    ELSE 0

\* lines 397-481: the ownership lookup of PATCH answers, the body is
\* validated and the first write is issued
PatchExistingAnswer(answer) ==
    /\ http.pc = "await_existing"
    /\ http.route = "PATCH /recipes/:id"
    /\ LET status == OwnerCheck(http, answer)
           body == CoerceTypes(http.body)
       IN http' =
            IF status # 0 THEN Reply(http, status)
            ELSE IF PatchInvalid(body) THEN Reply(http, 400)
            ELSE IF PayloadKeys(body) = {} /\ ~ShouldUpdateCategories(body)
            THEN Reply(http, 400)
            ELSE [http EXCEPT !.storeOps = @ + 1,
                              !.pc = IF PayloadKeys(body) # {}
                                     THEN "await_update" ELSE "await_clear"]
    /\ UNCHANGED <<db, env, follows, push_tokens, now, cachedAccessToken, rounds>>

\* lines 466-475: the update of the recipe's fields answers
PatchUpdateAnswer(ok) ==
    /\ http.pc = "await_update"
    /\ IF ~ok
       THEN /\ http' = Reply(http, 500)
            /\ db' = db
       ELSE LET body == CoerceTypes(http.body)
                clears == ShouldUpdateCategories(body)
            IN /\ db' = [db EXCEPT !.recipes =
                           {IF row.id = http.id THEN ApplyPayload(row, body)
                            ELSE row : row \in @}]
               /\ http' = [http EXCEPT
                             !.storeOps = @ + 1,
                             !.pc = IF clears THEN "await_clear"
                                    ELSE "await_patch_reread"]
    /\ UNCHANGED <<env, follows, push_tokens, now, cachedAccessToken, rounds>>

\* lines 477-485: the delete of the recipe's category links answers
PatchClearAnswer(ok) ==
    /\ http.pc = "await_clear"
    /\ IF ~ok
       THEN /\ http' = Reply(http, 500)
            /\ db' = db
       ELSE LET relinks == Len(NormalizeCategoryIds(http.body)) > 0
            IN /\ db' = [db EXCEPT !.recipe_categories =
                           {link \in @ : link[1] # http.id}]
               /\ http' = [http EXCEPT
                             !.storeOps = @ + 1,
                             !.pc = IF relinks THEN "await_patch_links"
                                    ELSE "await_patch_reread"]
    /\ UNCHANGED <<env, follows, push_tokens, now, cachedAccessToken, rounds>>

\* lines 487-500: the insert of the new category links answers
PatchLinksAnswer(ok) ==
    /\ http.pc = "await_patch_links"
    /\ IF ~ok
       THEN /\ http' = Reply(http, 500)
            /\ db' = db
       ELSE LET ids == NormalizeCategoryIds(http.body)
                links == {<<http.id, ids[i]>> : i \in DOMAIN ids}
            IN /\ db' = [db EXCEPT !.recipe_categories = @ \cup links]
               /\ http' = [http EXCEPT !.storeOps = @ + 1,
                                       !.pc = "await_patch_reread"]
    /\ UNCHANGED <<env, follows, push_tokens, now, cachedAccessToken, rounds>>

\* lines 503-511: the updated recipe is read back
PatchRereadAnswer(ok) ==
    /\ http.pc = "await_patch_reread"
    /\ http' = IF ~ok THEN Reply(http, 500)
               ELSE [http EXCEPT !.storeOps = @ + 1, !.pc = "await_patch_owner"]
    /\ UNCHANGED <<db, env, follows, push_tokens, now, cachedAccessToken, rounds>>

\* lines 513-527: the owner's profile is read, and the handler replies
PatchOwnerAnswer(ok) ==
    /\ http.pc = "await_patch_owner"
    /\ http' = Reply(http, IF ok THEN 200 ELSE 500)
    /\ UNCHANGED <<db, env, follows, push_tokens, now, cachedAccessToken, rounds>>

\* lines 561-576: the ownership lookup of DELETE answers
DeleteExistingAnswer(answer) ==
    /\ http.pc = "await_existing"
    /\ http.route = "DELETE /recipes/:id"
    /\ LET status == OwnerCheck(http, answer)
       IN http' = IF status # 0 THEN Reply(http, status)
                  ELSE [http EXCEPT !.storeOps = @ + 1, !.pc = "await_delete"]
    /\ UNCHANGED <<db, env, follows, push_tokens, now, cachedAccessToken, rounds>>

\* lines 578-584: the delete of the recipe row answers; what becomes of
\* the row's category links is the store's business
DeleteAnswer(ok) ==
    /\ http.pc = "await_delete"
    /\ http' = Reply(http, IF ok THEN 204 ELSE 500)
    /\ db' = IF ok
             THEN [db EXCEPT !.recipes = {row \in @ : row.id # http.id}]
             ELSE db
    /\ UNCHANGED <<env, follows, push_tokens, now, cachedAccessToken, rounds>>

\* ------------------------------------------------------- /me/push-token
\* lines 118-140 of me.ts: the upsert of the device token answers
RegisterAnswer(ok) ==
    /\ http.pc = "await_upsert"
    /\ http' = Reply(http, IF ok THEN 200 ELSE 500)
    /\ push_tokens' =
          IF ok
          THEN UpsertPushToken(push_tokens,
                               [user_id |-> http.user,
                                device_token |-> Trim(http.body.device_token),
                                is_active |-> TRUE])
          ELSE push_tokens
    /\ UNCHANGED <<db, env, follows, now, cachedAccessToken, rounds>>

\* lines 174-186 of me.ts: the update that deactivates the token answers
RemoveAnswer(ok) ==
    /\ http.pc = "await_deactivate"
    /\ http' = Reply(http, IF ok THEN 204 ELSE 500)
    /\ push_tokens' =
          IF ok
          THEN DeactivatePushToken(push_tokens, http.user,
                                   Trim(http.body.device_token))
          ELSE push_tokens
    /\ UNCHANGED <<db, env, follows, now, cachedAccessToken, rounds>>

\* the recipes table with its first n rows, owned by anyone
RECURSIVE RecipeTables(_)
RecipeTables(n) ==
    IF n = 0 THEN {{}}
    ELSE {table \cup {[id |-> RecipeIdValues[n], owner_id |-> owner,
                       title |-> "Flan", instructions |-> "Hornear",
                       ingredients |-> <<"huevo">>]} :
            table \in RecipeTables(n - 1), owner \in {"A1", "U1"}}

\* the category links of the first recipe: none, or one to category C2
CategoryLinkTables(table) ==
    {{}} \cup {{<<row.id, "C2">>} : row \in {r \in table : r.id = "R1"}}

\* the push_tokens table of a store that keeps device_token unique, as the
\* upsert of POST /me/push-token requires: U1 holds T1, U2 holds T2
RegisteredPushTokens ==
    << [user_id |-> "U1", device_token |-> "T1", is_active |-> TRUE],
       [user_id |-> "U2", device_token |-> "T2", is_active |-> TRUE] >>

\* The API process with fewer than MaxRecipes recipes in store.  No route
\* handler calls notifyFollowersNewRecipe, so the notifier takes no step.
InitApi ==
    /\ env \in ConfiguredEnvs
    /\ env.FIREBASE_PRIVATE_KEY = "PEM\\n"
    /\ follows = ScenarioFollows
    /\ push_tokens = RegisteredPushTokens
    /\ now = 0
    /\ cachedAccessToken = << >>
    /\ rounds = [r \in {1} |-> IdleRound]
    /\ http = IdleHttp
    /\ \E n \in 0..(MaxRecipes - 1) :
          \E table \in RecipeTables(n) :
             \E links \in CategoryLinkTables(table) :
                db = [recipes |-> table, recipe_categories |-> links]

NextApi ==
    \/ \E route \in ProtectedRoutes, authorization \in AuthorizationValues :
          \E id \in ParamIds(route), body \in Bodies(route) :
              Receive(route, id, authorization, body)
    \/ \E answer \in UserAnswers : UserAnswer(answer)
    \/ \E ok \in BOOLEAN : InsertAnswer(ok)
    \/ \E ok \in BOOLEAN : LinksAnswer(ok)
    \/ \E ok \in BOOLEAN : RereadAnswer(ok)
    \/ \E ok \in BOOLEAN : OwnerAnswer(ok)
    \/ \E answer \in ExistingAnswers : PatchExistingAnswer(answer)
    \/ \E ok \in BOOLEAN : PatchUpdateAnswer(ok)
    \/ \E ok \in BOOLEAN : PatchClearAnswer(ok)
    \/ \E ok \in BOOLEAN : PatchLinksAnswer(ok)
    \/ \E ok \in BOOLEAN : PatchRereadAnswer(ok)
    \/ \E ok \in BOOLEAN : PatchOwnerAnswer(ok)
    \/ \E answer \in ExistingAnswers : DeleteExistingAnswer(answer)
    \/ \E ok \in BOOLEAN : DeleteAnswer(ok)
    \/ \E ok \in BOOLEAN : RegisterAnswer(ok)
    \/ \E ok \in BOOLEAN : RemoveAnswer(ok)

SpecApi == InitApi /\ [][NextApi]_vars

\* ------------------------------------------------------- overlapping calls
\* Nothing serialises calls of notifyFollowersNewRecipe: a second call can
\* start while the first awaits a query, the exchange or its sends.
MaxCalls == 2

\* Two call slots in a configured process over the scenario store; the calls
\* are close enough in time to read the same instant.
InitOverlap ==
    /\ env = [adminSupabase |-> TRUE,
              FIREBASE_PROJECT_ID |-> "recipes-proj",
              FIREBASE_CLIENT_EMAIL |-> "svc@recipes-proj.iam",
              FIREBASE_PRIVATE_KEY |-> "PEM\\n"]
    /\ follows = ScenarioFollows
    /\ push_tokens = ScenarioPushTokens
    /\ now = MaxNow
    /\ cachedAccessToken = << >>
    /\ rounds = [r \in 1..MaxCalls |-> IdleRound]
    /\ http = IdleHttp
    /\ db = EmptyDb

\* the calls that overlap: the recipes of author A1, who has followers
OverlapInputs ==
    {input \in NotifyFollowersInputs : input.authorId = "A1" /\ input.logger}

\* a token that is stale at once, and one that is fresh
OverlapExpiresIn == {0, 90}

\* Every slot takes one call; the store answers both queries, the token
\* endpoint and the send endpoint answer in any order and in any way.
NextOverlap ==
    \/ \E r \in DOMAIN rounds, input \in OverlapInputs :
          rounds[r].pc = "idle" /\ Call(r, input)
    \/ \E r \in DOMAIN rounds : FollowersAnswer(r, "rows")
    \/ \E r \in DOMAIN rounds : TokensAnswer(r, "rows", now)
    \/ \E r \in DOMAIN rounds, failure \in ExchangeFailures : ExchangeFails(r, failure)
    \/ \E r \in DOMAIN rounds, expires_in \in OverlapExpiresIn :
          ExchangeSucceeds(r, expires_in)
    \/ \E r \in DOMAIN rounds : Dispatch(r)
    \/ \E r \in DOMAIN rounds, i \in 1..MaxRows, outcome \in SendOutcomes :
          SendAnswer(r, i, outcome)
    \/ \E r \in DOMAIN rounds : JoinAll(r)

SpecOverlap == InitOverlap /\ [][NextOverlap]_vars

\* ------------------------------------------------------------ properties
Range(xs) == {xs[i] : i \in DOMAIN xs}
SentTo(rec) == {rec.sends[i].token : i \in DOMAIN rec.sends}

\* C1: per-recipient isolation.  While a round dispatches, one send has been
\* issued for each of its device tokens, and a step in which one send fails
\* (non-success status or thrown exception) leaves the round dispatching,
\* keeps every send of the round and changes no other send.
SendIsolation ==
    [][\A r \in DOMAIN rounds :
        /\ rounds[r].pc = "sending" =>
              /\ Len(rounds[r].sends) = Len(rounds[r].tokens)
              /\ \A i \in DOMAIN rounds[r].sends :
                    rounds[r].sends[i].token = rounds[r].tokens[i]
        /\ \A i \in DOMAIN rounds[r].sends :
              ( /\ rounds[r].pc = "sending"
                /\ rounds[r].sends[i].st = "inflight"
                /\ rounds'[r].sends[i].st \in SendFailures )
              => /\ rounds'[r].pc = "sending"
                 /\ DOMAIN rounds'[r].sends = DOMAIN rounds[r].sends
                 /\ \A j \in DOMAIN rounds[r].sends \ {i} :
                       rounds'[r].sends[j] = rounds[r].sends[j]
      ]_vars

\* a send failed and, in the same round, another send went through
SendIsolationWitness ==
    \E r \in DOMAIN rounds : \E i, j \in DOMAIN rounds[r].sends :
        /\ rounds[r].pc = "sending"
        /\ rounds[r].sends[i].st \in SendFailures
        /\ rounds[r].sends[j].st = "ok"

\* C2: notifyFollowersNewRecipe never raises to its caller.
NeverRaises ==
    \A r \in DOMAIN rounds : rounds[r].pc # "raised"

\* The store as the claims speak of it: the followers of an author, and the
\* distinct non-empty tokens of active rows owned by a follower.
FollowersOf(authorId) ==
    {f[1] : f \in {g \in follows : g[2] = authorId /\ g[1] # ""}}
Audience(authorId) ==
    {push_tokens[k].device_token :
        k \in {i \in DOMAIN push_tokens :
                 /\ push_tokens[i].is_active
                 /\ push_tokens[i].device_token # ""
                 /\ push_tokens[i].user_id \in FollowersOf(authorId)}}
SendsTo(rec, t) == {i \in DOMAIN rec.sends : rec.sends[i].token = t}
Finishes(r) ==
    /\ rounds[r].pc \notin {"idle", "returned", "raised"}
    /\ rounds'[r].pc \in {"returned", "raised"}

\* C3 as stated: when a round is over, every device-token string that its
\* device-token query returned has received exactly one send.
DedupEveryReturnedToken ==
    [][\A r \in DOMAIN rounds :
        Finishes(r) =>
            \A t \in Range(rounds[r].tokenRows) :
                Cardinality(SendsTo(rounds[r], t)) = 1
      ]_vars

\* C3, amended: in a round no device-token string receives two sends, and a
\* round that dispatches has issued exactly one send to every non-empty
\* device-token string that its device-token query returned.
DedupExactlyOnce ==
    \A r \in DOMAIN rounds :
        /\ \A t \in SentTo(rounds[r]) :
              Cardinality(SendsTo(rounds[r], t)) = 1
        /\ rounds[r].pc = "sending" =>
              /\ \A t \in Range(rounds[r].tokenRows) \ {""} :
                    Cardinality(SendsTo(rounds[r], t)) = 1
              /\ rounds[r].sendRequests =
                    Cardinality(Range(rounds[r].tokenRows) \ {""})

\* a dispatching round whose query returned one token string in two rows
DedupWitness ==
    \E r \in DOMAIN rounds : \E i, j \in DOMAIN rounds[r].tokenRows :
        /\ rounds[r].pc = "sending"
        /\ i # j
        /\ rounds[r].tokenRows[i] = rounds[r].tokenRows[j]
        /\ rounds[r].tokenRows[i] # ""

\* C4: audience correctness.  No send ever goes to a token outside the
\* audience of the round's author (active rows, non-empty token, owner a
\* follower), and a round that dispatches sends to exactly that audience.
AudienceCorrect ==
    \A r \in DOMAIN rounds :
        /\ SentTo(rounds[r]) \subseteq Audience(rounds[r].input.authorId)
        /\ rounds[r].pc = "sending" =>
              /\ SentTo(rounds[r]) = Audience(rounds[r].input.authorId)
              /\ rounds[r].sendRequests =
                    Cardinality(Audience(rounds[r].input.authorId))

\* a round dispatches to two tokens while a follower's inactive row holds a
\* third token, which gets no send
AudienceWitness ==
    \E r \in DOMAIN rounds : \E i \in DOMAIN push_tokens :
        /\ rounds[r].pc = "sending"
        /\ Cardinality(SentTo(rounds[r])) = 2
        /\ ~push_tokens[i].is_active
        /\ push_tokens[i].user_id \in FollowersOf(rounds[r].input.authorId)
        /\ push_tokens[i].device_token \notin SentTo(rounds[r]) \cup {""}

\* C5: a round for an author without followers (no follows row, or only rows
\* with an empty follower_id) makes no device-token query, no token-endpoint
\* request and no send.
NoFollowersShortCircuit ==
    \A r \in DOMAIN rounds :
        ( /\ rounds[r].pc # "idle"
          /\ FollowersOf(rounds[r].input.authorId) = {} )
        => /\ rounds[r].pc \in {"await_followers", "returned"}
           /\ rounds[r].tokenQueries = 0
           /\ rounds[r].tokenRequests = 0
           /\ rounds[r].sendRequests = 0
           /\ rounds[r].sends = << >>

\* the follower query answered, without error, only a row with an empty
\* follower_id, and the round returned
NoFollowersWitness ==
    \E r \in DOMAIN rounds :
        /\ rounds[r].pc = "returned"
        /\ rounds[r].followerQueries = 1
        /\ rounds[r].input.logger /\ rounds[r].logs = {}
        /\ <<"", rounds[r].input.authorId>> \in follows
        /\ FollowersOf(rounds[r].input.authorId) = {}

\* C6: when the followers of the author have no active row with a usable
\* token string, the round sends nothing.
NoTokensNoDispatch ==
    \A r \in DOMAIN rounds :
        ( /\ rounds[r].pc # "idle"
          /\ Audience(rounds[r].input.authorId) = {} )
        => /\ rounds[r].sendRequests = 0
           /\ rounds[r].sends = << >>
           /\ rounds[r].pc # "sending"

\* the author has followers, the device-token query answered without error
\* and returned an empty token string only, and the round returned
NoTokensWitness ==
    \E r \in DOMAIN rounds : \E i \in DOMAIN push_tokens :
        /\ rounds[r].pc = "returned"
        /\ rounds[r].tokenQueries = 1
        /\ rounds[r].input.logger /\ rounds[r].logs = {}
        /\ Audience(rounds[r].input.authorId) = {}
        /\ push_tokens[i].is_active
        /\ push_tokens[i].user_id \in FollowersOf(rounds[r].input.authorId)
        /\ push_tokens[i].device_token = ""

\* the configuration the notifier needs is incomplete
ConfigIncomplete ==
    \/ ~env.adminSupabase
    \/ env.FIREBASE_PROJECT_ID \in {Unset, ""}
    \/ env.FIREBASE_CLIENT_EMAIL \in {Unset, ""}
    \/ env.FIREBASE_PRIVATE_KEY \in {Unset, ""}
NoStoreOrNetworkUse(rec) ==
    /\ rec.followerQueries = 0
    /\ rec.tokenQueries = 0
    /\ rec.tokenRequests = 0
    /\ rec.sendRequests = 0
    /\ rec.sends = << >>

CallsGetGoogleAccessToken(r) ==
    /\ rounds[r].pc = "await_tokens"
    /\ rounds'[r].pc \in {"got_token", "await_exchange", "raised"}
\* the cached entry, more than 60 seconds before its expiry at instant ms
ValidAt(cache, ms) ==
    Len(cache) = 1 /\ cache[1].expiresAtMs - ms > 60000

\* C8: token cache hit.  A getGoogleAccessToken call made while a cached
\* token exists and expiresAtMs - 60000 is greater than the current time
\* returns the cached token, makes no token-endpoint request and leaves the
\* cache as it was.
CacheHitServesCachedToken ==
    [][\A r \in DOMAIN rounds :
        ( /\ CallsGetGoogleAccessToken(r)
          /\ ValidAt(cachedAccessToken, now' * TickMs) )
        => /\ rounds'[r].pc = "got_token"
           /\ rounds'[r].accessToken = cachedAccessToken[1].token
           /\ rounds'[r].tokenRequests = 0
           /\ rounds'[r].assertion = << >>
           /\ cachedAccessToken' = cachedAccessToken
      ]_vars

\* a call was served the cached token without a token-endpoint request
CacheHitWitness ==
    \E r \in DOMAIN rounds :
        /\ rounds[r].pc = "got_token"
        /\ rounds[r].cacheHit
        /\ rounds[r].tokenRequests = 0
        /\ Len(cachedAccessToken) = 1
        /\ rounds[r].accessToken = cachedAccessToken[1].token

\* C9: a token handed out from the cache has, at that moment, more than 60
\* seconds left before its recorded expiry.
CacheHitNotNearExpiry ==
    [][\A r \in DOMAIN rounds :
        (~rounds[r].cacheHit /\ rounds'[r].cacheHit)
        => /\ Len(cachedAccessToken) = 1
           /\ rounds'[r].accessToken = cachedAccessToken[1].token
           /\ cachedAccessToken[1].expiresAtMs - rounds'[r].now > 60000
      ]_vars

\* a token was handed out from the cache 90 seconds before its expiry
CacheHitNearExpiryWitness ==
    \E r \in DOMAIN rounds :
        /\ rounds[r].pc = "got_token"
        /\ rounds[r].cacheHit
        /\ Len(cachedAccessToken) = 1
        /\ cachedAccessToken[1].expiresAtMs - rounds[r].now = 90000

ExchangeFailed(r) ==
    /\ rounds[r].pc = "await_exchange"
    /\ rounds'[r].pc = "got_token"
    /\ rounds'[r].accessToken = Null

\* C11: a failed token exchange (non-success status, malformed body, no
\* access_token, network error) makes getGoogleAccessToken return null and
\* leaves the cache as it was when the call began: a stale entry is neither
\* cleared nor replaced, the failure is logged, no second request is made,
\* and since the cache was not fresh for the call it is not fresh for any
\* later instant, so the next call attempts an exchange again.
ExchangeFailureKeepsCache ==
    [][\A r \in DOMAIN rounds :
        /\ (rounds[r].pc = "await_exchange" /\ rounds'[r].accessToken = Null)
           => cachedAccessToken' = cachedAccessToken
        /\ ExchangeFailed(r)
           => /\ rounds'[r].tokenRequests = 1
              /\ rounds'[r].input.logger =>
                    Cardinality(rounds'[r].logs) = 1
              /\ ~CacheFresh(cachedAccessToken', rounds[r].now)
              /\ \A t \in now..MaxNow :
                    ~CacheFresh(cachedAccessToken', t * TickMs)
      ]_vars

\* an exchange failed while a stale entry was cached, and the entry is kept
ExchangeFailureWitness ==
    \E r \in DOMAIN rounds :
        /\ rounds[r].pc = "got_token"
        /\ rounds[r].accessToken = Null
        /\ rounds[r].tokenRequests = 1
        /\ Len(cachedAccessToken) = 1
        /\ cachedAccessToken[1].token = AccessTokenValues[1]

\* C12: a round whose access-token acquisition yielded null issues no
\* request to the send endpoint for any device token, and returns; a round
\* that dispatches holds an access token.
NullTokenSkipsRound ==
    [][\A r \in DOMAIN rounds :
        /\ (rounds[r].pc = "got_token" /\ rounds[r].accessToken = Null)
           => /\ rounds[r].sendRequests = 0
              /\ rounds[r].sends = << >>
              /\ rounds'[r].pc \in {"got_token", "returned"}
              /\ rounds'[r].sendRequests = 0
              /\ rounds'[r].sends = << >>
        /\ rounds'[r].pc = "sending" => rounds'[r].accessToken # Null
      ]_vars

\* a round with device tokens to notify asked the token endpoint, got no
\* access token, and returned without a send
NullTokenWitness ==
    \E r \in DOMAIN rounds :
        /\ rounds[r].pc = "returned"
        /\ rounds[r].tokenRequests = 1
        /\ rounds[r].sendRequests = 0
        /\ Cardinality(Audience(rounds[r].input.authorId)) = 2
        /\ \E entry \in rounds[r].logs : entry.msg \in ExchangeFailures

\* the round has logged msg
Logged(rec, msg) == \E entry \in rec.logs : entry.msg = msg

\* C13: an upstream query failure aborts the round.  A round leaves the
\* follower query either for the device-token query or by returning with no
\* device-token query, token-endpoint request or send, and a round that
\* returns from the device-token query has made no token-endpoint request
\* or send.  A round that logged
\* a follower-query error has returned, not raised, without a device-token
\* query, token-endpoint request or send; one that logged a
\* device-token-query error has returned, not raised, without a
\* token-endpoint request or send.
QueryFailureAborts ==
    [][\A r \in DOMAIN rounds :
        /\ ( /\ rounds[r].pc = "await_followers"
             /\ rounds'[r].pc \notin {"await_followers", "await_tokens"} )
           => /\ rounds'[r].pc = "returned"
              /\ rounds'[r].tokenQueries = 0
              /\ rounds'[r].tokenRequests = 0
              /\ rounds'[r].sendRequests = 0
        /\ (rounds[r].pc = "await_tokens" /\ rounds'[r].pc = "returned")
           => /\ rounds'[r].tokenRequests = 0
              /\ rounds'[r].sendRequests = 0
        /\ Logged(rounds'[r], "failed to load followers")
           => /\ rounds'[r].pc = "returned"
              /\ rounds'[r].followerQueries = 1
              /\ rounds'[r].tokenQueries = 0
              /\ rounds'[r].tokenRequests = 0
              /\ rounds'[r].sendRequests = 0
              /\ rounds'[r].sends = << >>
        /\ Logged(rounds'[r], "failed to load push tokens")
           => /\ rounds'[r].pc = "returned"
              /\ rounds'[r].tokenQueries = 1
              /\ rounds'[r].tokenRequests = 0
              /\ rounds'[r].sendRequests = 0
              /\ rounds'[r].sends = << >>
      ]_vars

\* the follower query of an author with an audience of two tokens failed,
\* and the round returned
QueryFailureWitness ==
    \E r \in DOMAIN rounds :
        /\ rounds[r].pc = "returned"
        /\ Logged(rounds[r], "failed to load followers")
        /\ Cardinality(Audience(rounds[r].input.authorId)) = 2

\* C14: in every round, overlapping rounds included, token acquisition is
\* over before the first send: sends exist only while the round dispatches,
\* a round starts dispatching only from the state in which its
\* getGoogleAccessToken call has returned a token, every send of the round
\* carries that token, and neither the round's token nor the bearer of a
\* send changes while the round dispatches, whatever happens to the cache.
TokenBeforeSends ==
    [][\A r \in DOMAIN rounds :
        /\ rounds[r].pc # "sending" => rounds[r].sends = << >>
        /\ (rounds[r].pc # "sending" /\ rounds'[r].pc = "sending")
           => /\ rounds[r].pc = "got_token"
              /\ rounds[r].accessToken # Null
              /\ rounds'[r].accessToken = rounds[r].accessToken
              /\ rounds'[r].sends # << >>
        /\ rounds'[r].pc = "sending"
           => \A i \in DOMAIN rounds'[r].sends :
                 rounds'[r].sends[i].bearer = rounds'[r].accessToken
        /\ (rounds[r].pc = "sending" /\ rounds'[r].pc = "sending")
           => /\ rounds'[r].accessToken = rounds[r].accessToken
              /\ \A i \in DOMAIN rounds[r].sends :
                    rounds'[r].sends[i].bearer = rounds[r].sends[i].bearer
      ]_vars

\* a send of one round is in flight with the round's token while another
\* round has replaced the cached token
TokenBeforeSendsWitness ==
    \E r \in DOMAIN rounds : \E i \in DOMAIN rounds[r].sends :
        /\ rounds[r].pc = "sending"
        /\ rounds[r].sends[i].st = "inflight"
        /\ rounds[r].sends[i].bearer = rounds[r].accessToken
        /\ Len(cachedAccessToken) = 1
        /\ cachedAccessToken[1].token # rounds[r].accessToken

\* C15: join-all.  A round stops dispatching only by returning, and only
\* from a state in which every one of its sends has finished (succeeded,
\* failed or thrown); the step in which a send fails never ends the round.
JoinAllSends ==
    [][\A r \in DOMAIN rounds :
        /\ (rounds[r].pc = "sending" /\ rounds'[r].pc # "sending")
           => /\ rounds'[r].pc = "returned"
              /\ Len(rounds[r].sends) = Len(rounds[r].tokens)
              /\ \A i \in DOMAIN rounds[r].sends :
                    rounds[r].sends[i].st \in SendOutcomes
        /\ ( /\ rounds[r].pc = "sending"
             /\ \E i \in DOMAIN rounds[r].sends :
                   rounds[r].sends[i].st = "inflight" )
           => rounds'[r].pc = "sending"
      ]_vars

\* a round returned after its two sends, one of which had thrown and the
\* other had been refused
JoinAllWitness ==
    \E r \in DOMAIN rounds :
        /\ rounds[r].pc = "returned"
        /\ rounds[r].sendRequests = 2
        /\ \E e1, e2 \in rounds[r].logs :
              /\ e1.msg = "threw" /\ e2.msg = "http_error"
              /\ e1.token # "" /\ e2.token # "" /\ e1.token # e2.token

\* C16: no retry.  In a round every device token has at most one send;
\* requests to the send endpoint are issued once, at dispatch, one per
\* device token; a send that has failed stays failed and no send is added
\* while the round dispatches; a round makes at most one token-endpoint
\* request, and a round whose exchange failed makes no further one.
NoRetry ==
    [][\A r \in DOMAIN rounds :
        /\ \A t \in SentTo(rounds'[r]) :
              Cardinality(SendsTo(rounds'[r], t)) = 1
        /\ rounds'[r].sendRequests > rounds[r].sendRequests
           => /\ rounds[r].pc = "got_token"
              /\ rounds[r].sendRequests = 0
              /\ rounds'[r].sendRequests = Len(rounds[r].tokens)
        /\ (rounds[r].pc = "sending" /\ rounds'[r].pc = "sending")
           => /\ Len(rounds'[r].sends) = Len(rounds[r].sends)
              /\ \A i \in DOMAIN rounds[r].sends :
                    rounds[r].sends[i].st \in SendFailures
                    => rounds'[r].sends[i] = rounds[r].sends[i]
        /\ rounds'[r].tokenRequests <= 1
        /\ (rounds[r].pc = "got_token" /\ rounds[r].accessToken = Null)
           => rounds'[r].pc \in {"got_token", "returned"}
      ]_vars

\* a round returned having issued two sends, one of which had failed, after
\* one token-endpoint request
NoRetryWitness ==
    \E r \in DOMAIN rounds :
        /\ rounds[r].pc = "returned"
        /\ rounds[r].sendRequests = 2
        /\ rounds[r].tokenRequests = 1
        /\ Cardinality({e \in rounds[r].logs : e.token # ""}) = 1

\* what every message of a round has in common, given its title
MessagesUniform(TitleOf(_)) ==
    \A r \in DOMAIN rounds : \A i \in DOMAIN rounds[r].sends :
        LET send == rounds[r].sends[i]
            input == rounds[r].input
        IN /\ send.title = TitleOf(input.authorName)
           /\ send.body = input.recipeTitle
           /\ DOMAIN send.data = {"type", "recipe_id", "author_id"}
           /\ send.data.type = "new_recipe"
           /\ send.data.recipe_id = input.recipeId
           /\ send.data.author_id = input.authorId
           /\ send.token = rounds[r].tokens[i]
           /\ \A j \in DOMAIN rounds[r].sends :
                 [rounds[r].sends[j] EXCEPT !.token = send.token,
                                            !.st = send.st] = send

EnglishTitle(authorName) == "New recipe from " \o authorName
SpanishTitle(authorName) == "Nueva receta de " \o authorName

Progress ==
    \A r \in 1..MaxCalls :
        /\ WF_vars(FollowersAnswer(r, "rows"))
        /\ WF_vars(TokensAnswer(r, "rows", now))
        /\ WF_vars(Dispatch(r))
        /\ WF_vars(JoinAll(r))

SpecProgress == InitOverlap /\ [][NextOverlap]_vars /\ Progress

\* C18: bounded waiting.  Every call that has begun eventually returns or
\* raises, whether or not the token endpoint and the send endpoint answer.
RoundCompletes ==
    \A r \in 1..MaxCalls :
        (rounds[r].pc \notin {"idle", "returned", "raised"})
            ~> (rounds[r].pc \in {"returned", "raised"})

\* C19: recipe creation notifies.  A notifier call exists only for a recipe
\* whose row is in the recipes table, and when POST /recipes has replied 201
\* notifyFollowersNewRecipe has been called for the recipe it created.
CreationNotifies ==
    /\ \A r \in DOMAIN rounds :
          rounds[r].pc # "idle" =>
              \E row \in db.recipes : row.id = rounds[r].input.recipeId
    /\ ( /\ http.route = "POST /recipes"
         /\ http.pc = "replied"
         /\ http.status = 201 )
       => \E r \in DOMAIN rounds :
             /\ rounds[r].pc # "idle"
             /\ rounds[r].input.recipeId = http.recipeId
             /\ rounds[r].input.authorId = http.user

\* the Authorization headers of the form "Bearer <token>" whose token the
\* auth service resolves to a user
ResolvableHeaders == {"Bearer tok-A1", "Bearer tok-U1"}
StoreUntouched ==
    /\ http.storeOps = 0
    /\ http.user = Null
    /\ db = http.before

\* C20 as stated: a request to a protected endpoint whose Authorization
\* header is missing, not of the form "Bearer <token>", or carries a token
\* that resolves to no user is answered 401, and no store read or write is
\* made for it.
UnauthenticatedGets401 ==
    (http.pc # "idle" /\ http.authorization \notin ResolvableHeaders)
    => /\ http.route \in ProtectedRoutes
       /\ http.pc \in {"await_user", "replied"}
       /\ http.pc = "replied" => http.status = 401
       /\ StoreUntouched

\* C20, amended: such a request is rejected before any store read or write
\* is made for it: with 400 when its body fails the route's schema, which
\* is validated before the handler runs, and with 401 otherwise.
UnauthenticatedRejected ==
    (http.pc # "idle" /\ http.authorization \notin ResolvableHeaders)
    => /\ http.route \in ProtectedRoutes
       /\ http.pc \in {"await_user", "replied"}
       /\ http.pc = "replied" =>
             http.status = IF SchemaValid(http.route, http.body)
                           THEN 401 ELSE 400
       /\ http.pc = "await_user" =>
             /\ http.authorization = "Bearer stale"
             /\ SchemaValid(http.route, http.body)
       /\ StoreUntouched

\* a well-formed registration of a device token, carrying a token that the
\* auth service did not resolve, was answered 401
UnauthenticatedWitness ==
    /\ http.route = "POST /me/push-token"
    /\ http.authorization = "Bearer stale"
    /\ http.body.present = {"device_token", "platform"}
    /\ http.authCalls = 1
    /\ http.pc = "replied"
    /\ http.status = 401
    /\ http.storeOps = 0

\* POST /recipes bodies: a required text is missing or blank after trimming,
\* or no ingredient is a non-blank string
BlankRecipeBody(body) ==
    \/ {"title", "instructions", "ingredients"} \ body.present # {}
    \/ Trim(body.title) = ""
    \/ Trim(body.instructions) = ""
    \/ \A i \in DOMAIN body.ingredients : Trim(body.ingredients[i]) = ""
\* the request made no store call and created nothing
NothingInserted ==
    /\ http.storeOps = 0
    /\ http.recipeId = ""
    /\ db = http.before

\* C21 as stated: a POST /recipes request whose title or instructions is
\* missing, not a string or blank after trimming, or whose ingredients hold
\* no non-blank string, is rejected with 400 (unless it was turned away with
\* 401 first), and no recipe row and no category link is inserted.
InvalidRecipeRejected ==
    ( /\ http.route = "POST /recipes"
      /\ BlankRecipeBody(http.body) \/ http.body.numbers # {} )
    => /\ http.pc \in {"await_user", "replied"}
       /\ http.pc = "replied" => http.status \in {400, 401}
       /\ NothingInserted

\* The part of the rule that the handler does enforce: a POST /recipes
\* request whose title or instructions is missing or blank after trimming,
\* or whose ingredients hold no non-blank string, is rejected with 400
\* (unless it was turned away with 401 first), and nothing is inserted.
BlankRecipeRejected ==
    ( /\ http.route = "POST /recipes"
      /\ BlankRecipeBody(http.body) )
    => /\ http.pc \in {"await_user", "replied"}
       /\ http.pc = "replied" => http.status \in {400, 401}
       /\ ( /\ http.pc = "replied"
            /\ http.authorization \in ResolvableHeaders
            /\ http.authCalls = 0 ) => http.status = 400
       /\ http.user # Null => http.status = 400
       /\ NothingInserted

\* an authenticated request with a blank ingredient list, its title and
\* instructions being in order, was answered 400
BlankRecipeWitness ==
    /\ http.route = "POST /recipes"
    /\ http.user = "A1"
    /\ http.body.title = "Tarta"
    /\ http.body.instructions = "Mezclar"
    /\ http.body.ingredients = <<"  ">>
    /\ http.pc = "replied"
    /\ http.status = 400
    /\ NothingInserted

\* round r went through a successful exchange of its own in this step
ExchangeSucceeded(r) ==
    /\ rounds[r].pc = "await_exchange"
    /\ rounds'[r].pc = "got_token"
    /\ rounds'[r].accessToken # Null
\* round r holds a token that its own token-endpoint request brought
HoldsOwnToken(r) ==
    /\ rounds[r].pc \in {"got_token", "sending"}
    /\ ~rounds[r].cacheHit
    /\ rounds[r].accessToken # Null

\* C22: token refresh is not mutually exclusive.  A getGoogleAccessToken
\* call that finds the cache empty or stale issues a token-endpoint request
\* of its own, whether or not another call's request is in flight; every
\* successful response overwrites the one cache slot with its own token, so
\* the cache holds the entry of the response processed last; and each call
\* goes on with the token of its own response, which no later response
\* changes.
RefreshNotExclusive ==
    [][\A r \in DOMAIN rounds :
        /\ ( /\ CallsGetGoogleAccessToken(r)
             /\ ~ValidAt(cachedAccessToken, now' * TickMs) )
           => /\ rounds'[r].pc = "await_exchange"
              /\ rounds'[r].tokenRequests = rounds[r].tokenRequests + 1
        /\ ExchangeSucceeded(r)
           => /\ Len(cachedAccessToken') = 1
              /\ cachedAccessToken'[1].token = rounds'[r].accessToken
              /\ cachedAccessToken'[1].expiresAtMs >= rounds[r].now
        /\ HoldsOwnToken(r)
           => /\ HoldsOwnToken(r)'
                 => rounds'[r].accessToken = rounds[r].accessToken
              /\ \A q \in DOMAIN rounds \ {r} :
                    HoldsOwnToken(q) =>
                       rounds[q].accessToken # rounds[r].accessToken
              /\ \A i \in DOMAIN rounds[r].sends :
                    rounds[r].sends[i].bearer = rounds[r].accessToken
      ]_vars

\* two calls each made a token-endpoint request and both succeeded: the
\* sends of the first carry its own token while the cache holds the token
\* of the second, whose response came last
RefreshNotExclusiveWitness ==
    /\ rounds[1].tokenRequests = 1
    /\ rounds[2].tokenRequests = 1
    /\ rounds[1].pc = "sending"
    /\ HoldsOwnToken(2)
    /\ rounds[1].accessToken # rounds[2].accessToken
    /\ Len(cachedAccessToken) = 1
    /\ cachedAccessToken[1].token = rounds[2].accessToken
    /\ \A i \in DOMAIN rounds[1].sends :
          rounds[1].sends[i].bearer = rounds[1].accessToken

\* the cache entries that the response to round r's request can produce
EntriesOfResponse(r) ==
    {NewCacheEntry(rounds'[r].accessToken, rounds[r].now, expires_in) :
        expires_in \in ExpiresInValues}

\* C23: single-slot cache.  The cache is empty at process start; in every
\* state, under any interleaving of rounds, it is empty or holds exactly one
\* {token, expiresAtMs} pair; and a step changes it only when a token
\* exchange succeeds, to the pair made of that response's token and of the
\* expiry computed from that same response (never a failed exchange, never
\* a send).
SingleSlotCache ==
    /\ cachedAccessToken = << >>
    /\ [](Len(cachedAccessToken) <= 1)
    /\ [][cachedAccessToken' # cachedAccessToken =>
            \E r \in DOMAIN rounds :
                /\ ExchangeSucceeded(r)
                /\ cachedAccessToken' \in {<<e>> : e \in EntriesOfResponse(r)}
         ]_vars

\* the cache holds the pair of one round's successful exchange after the
\* other round made its own exchange, sent its messages and returned
SingleSlotCacheWitness ==
    /\ Len(cachedAccessToken) = 1
    /\ \E r, q \in DOMAIN rounds :
        /\ r # q
        /\ HoldsOwnToken(r)
        /\ cachedAccessToken[1].token = rounds[r].accessToken
        /\ rounds[q].tokenRequests = 1
        /\ rounds[q].pc = "returned"
        /\ rounds[q].sendRequests > 0

\* the lifetime, in milliseconds, that a token response grants
LifetimeMs(expires_in) ==
    IF expires_in = Absent THEN 3600 * 1000 ELSE expires_in * 1000

\* C24: on a successful exchange the cached expiry equals now + lifetime,
\* where lifetime is the response's expires_in in seconds (3600 when the
\* field is absent) and now is the time the call read; consequently a token
\* is served from the cache only while less than lifetime - 60 seconds have
\* passed since the call that obtained it.
ExpiryIsNowPlusLifetime ==
    [][\A r \in DOMAIN rounds :
        /\ ExchangeSucceeded(r)
           => cachedAccessToken' =
                 <<[token |-> rounds'[r].accessToken,
                    expiresAtMs |->
                        rounds[r].now + LifetimeMs(rounds'[r].expires_in)]>>
        /\ (~rounds[r].cacheHit /\ rounds'[r].cacheHit)
           => /\ Len(cachedAccessToken) = 1
              /\ \A t \in 0..MaxNow, expires_in \in ExpiresInValues :
                    cachedAccessToken[1].expiresAtMs
                        = t * TickMs + LifetimeMs(expires_in)
                    => rounds'[r].now - t * TickMs
                          < LifetimeMs(expires_in) - 60 * 1000
      ]_vars

\* a call that read the clock at 30 s got a token without expires_in: the
\* cached expiry is 30 s + 3600 s
ExpiryWitness ==
    \E r \in DOMAIN rounds :
        /\ rounds[r].pc = "got_token"
        /\ ~rounds[r].cacheHit
        /\ rounds[r].now = 30000
        /\ rounds[r].expires_in = Absent
        /\ Len(cachedAccessToken) = 1
        /\ cachedAccessToken[1].expiresAtMs = 3630000

\* token acquisitions of a round: exchanges it asked for and cache hits
Acquisitions(rec) == rec.tokenRequests + (IF rec.cacheHit THEN 1 ELSE 0)

\* C25: pipeline order.  In every round the follower query comes first; the
\* device-token query is issued only when the follower query answered with
\* a non-empty follower set; the access token is acquired (from the cache or
\* from the token endpoint) only when the device-token query answered with a
\* non-empty token set; sends are issued only when the acquisition gave a
\* token; the cache changes only in a round that has both sets non-empty;
\* and a call without the store credential is turned away by the first
\* guard, whatever the gateway configuration is.
PipelineOrder ==
    [][\A r \in DOMAIN rounds :
        /\ rounds'[r].followerQueries > rounds[r].followerQueries
           => /\ rounds[r].pc \in {"idle", "returned", "raised"}
              /\ rounds'[r].tokenQueries = 0
              /\ Acquisitions(rounds'[r]) = 0
              /\ rounds'[r].sendRequests = 0
        /\ rounds'[r].tokenQueries > rounds[r].tokenQueries
           => /\ rounds[r].pc = "await_followers"
              /\ rounds[r].followerQueries = 1
              /\ rounds'[r].followerIds # {}
              /\ Acquisitions(rounds[r]) = 0
        /\ Acquisitions(rounds'[r]) > Acquisitions(rounds[r])
           => /\ rounds[r].pc = "await_tokens"
              /\ rounds[r].tokenQueries = 1
              /\ rounds[r].followerIds # {}
              /\ rounds'[r].tokens # << >>
              /\ rounds[r].sendRequests = 0
        /\ rounds'[r].sendRequests > rounds[r].sendRequests
           => /\ rounds[r].pc = "got_token"
              /\ Acquisitions(rounds[r]) = 1
              /\ rounds[r].accessToken # Null
        /\ ExchangeSucceeded(r)
           => rounds[r].followerIds # {} /\ rounds[r].tokens # << >>
        /\ cachedAccessToken' # cachedAccessToken
           => \E q \in DOMAIN rounds : ExchangeSucceeded(q)
        /\ ( /\ rounds[r].pc \in {"idle", "returned", "raised"}
             /\ rounds'[r] # rounds[r]
             /\ AdminSupabaseMissing(env) )
           => /\ rounds'[r].pc = "returned"
              /\ rounds'[r].followerQueries = 0
              /\ rounds'[r].input.logger =>
                    \A entry \in rounds'[r].logs :
                        entry.msg = "no service role key"
      ]_vars

\* a round went through all four stages and returned: one follower query,
\* one device-token query, one token exchange, one send per device token
PipelineOrderWitness ==
    \E r \in DOMAIN rounds :
        /\ rounds[r].pc = "returned"
        /\ rounds[r].followerQueries = 1
        /\ rounds[r].tokenQueries = 1
        /\ rounds[r].tokenRequests = 1
        /\ ~rounds[r].cacheHit
        /\ rounds[r].sendRequests = 2

\* C26: every signed assertion has issuer = subject = the client email,
\* issued-at = the time of the call in whole seconds and expiry = issued-at
\* + 3600; a step that issues a token-endpoint request builds a new
\* assertion for it, and a step that serves the cached token builds none.
AssertionClaims ==
    [][\A r \in DOMAIN rounds :
        /\ \A i \in DOMAIN rounds'[r].assertion :
              LET jwt == rounds'[r].assertion[i]
              IN /\ jwt.iss = env.FIREBASE_CLIENT_EMAIL
                 /\ jwt.sub = env.FIREBASE_CLIENT_EMAIL
                 /\ jwt.iat * 1000 <= rounds'[r].now
                 /\ rounds'[r].now < (jwt.iat + 1) * 1000
                 /\ jwt.exp = jwt.iat + 3600
        /\ rounds'[r].tokenRequests > rounds[r].tokenRequests
           => /\ rounds[r].assertion = << >>
              /\ Len(rounds'[r].assertion) = 1
              /\ rounds'[r].now = now' * TickMs
        /\ (~rounds[r].cacheHit /\ rounds'[r].cacheHit)
           => /\ rounds'[r].assertion = << >>
              /\ rounds'[r].tokenRequests = rounds[r].tokenRequests
      ]_vars

\* a token-endpoint request is in flight with an assertion issued at 30 s
\* that expires at 3630 s
AssertionWitness ==
    \E r \in DOMAIN rounds :
        /\ rounds[r].pc = "await_exchange"
        /\ rounds[r].assertion =
              <<[iss |-> "svc@recipes-proj.iam", sub |-> "svc@recipes-proj.iam",
                 iat |-> 30, exp |-> 3630]>>

\* the cached entry has 60 seconds or less to live at the clock instant t
\* (in ticks); the clock never runs backwards, so it stays so
ShortLived(cache, t) ==
    Len(cache) = 1 /\ cache[1].expiresAtMs <= t * TickMs + 60 * 1000

\* C27: a successfully exchanged token with expires_in <= 60 (0 included)
\* is returned to the caller, is the bearer of that round's sends and is
\* written to the cache, where it has at once 60 seconds or less to live;
\* an entry in that condition stays in it as long as it is cached; and a
\* getGoogleAccessToken call that finds such an entry is not served from
\* the cache but issues a new token-endpoint request.
ShortLivedNeverServed ==
    [][\A r \in DOMAIN rounds :
        /\ ( /\ ExchangeSucceeded(r)
             /\ rounds'[r].expires_in # Absent
             /\ rounds'[r].expires_in <= 60 )
           => /\ Len(cachedAccessToken') = 1
              /\ cachedAccessToken'[1].token = rounds'[r].accessToken
              /\ ShortLived(cachedAccessToken', now')
        /\ rounds'[r].sendRequests > rounds[r].sendRequests
           => /\ rounds'[r].sends # << >>
              /\ \A i \in DOMAIN rounds'[r].sends :
                    rounds'[r].sends[i].bearer = rounds[r].accessToken
        /\ ( /\ ShortLived(cachedAccessToken, now)
             /\ cachedAccessToken' = cachedAccessToken )
           => ShortLived(cachedAccessToken', now')
        /\ ( /\ CallsGetGoogleAccessToken(r)
             /\ ShortLived(cachedAccessToken, now') )
           => /\ ~rounds'[r].cacheHit
              /\ rounds'[r].pc = "await_exchange"
              /\ rounds'[r].tokenRequests = rounds[r].tokenRequests + 1
      ]_vars

\* a token obtained at instant 0 with expires_in = 60 is cached, and a later
\* call made at the same instant has a token-endpoint request in flight
ShortLivedWitness ==
    \E r \in DOMAIN rounds :
        /\ cachedAccessToken = <<[token |-> AccessTokenValues[1],
                                  expiresAtMs |-> 60000]>>
        /\ rounds[r].pc = "await_exchange"
        /\ rounds[r].now = 0
        /\ rounds[r].tokenRequests = 1

\* ------------------------------------------------- push-token lifecycle
\* Requests to /me/push-token follow one another while notifier calls
\* for recipes of A1 run beside them: devices are registered and removed
\* between and during notification rounds.
InitLifecycle ==
    /\ env = [adminSupabase |-> TRUE,
              FIREBASE_PROJECT_ID |-> "recipes-proj",
              FIREBASE_CLIENT_EMAIL |-> "svc@recipes-proj.iam",
              FIREBASE_PRIVATE_KEY |-> "PEM\\n"]
    /\ follows = ScenarioFollows
    /\ push_tokens = RegisteredPushTokens
    /\ now = MaxNow
    /\ cachedAccessToken = << >>
    /\ rounds = [r \in {1} |-> IdleRound]
    /\ http = IdleHttp
    /\ db = EmptyDb

\* the reply has been sent, and the server takes the next request
NextRequest ==
    /\ http.pc = "replied"
    /\ http' = IdleHttp
    /\ UNCHANGED <<db, env, follows, push_tokens, now, cachedAccessToken, rounds>>

LifecycleRoutes == {"POST /me/push-token", "DELETE /me/push-token"}

NextLifecycle ==
    \/ \E route \in LifecycleRoutes, authorization \in ResolvableHeaders :
          \E body \in Bodies(route) : Receive(route, "", authorization, body)
    \/ UserAnswer("user")
    \/ \E ok \in BOOLEAN : RegisterAnswer(ok)
    \/ \E ok \in BOOLEAN : RemoveAnswer(ok)
    \/ NextRequest
    \/ \E r \in DOMAIN rounds, input \in OverlapInputs : Call(r, input)
    \/ \E r \in DOMAIN rounds : FollowersAnswer(r, "rows")
    \/ \E r \in DOMAIN rounds : TokensAnswer(r, "rows", now)
    \/ \E r \in DOMAIN rounds : ExchangeSucceeds(r, 90)
    \/ \E r \in DOMAIN rounds : Dispatch(r)
    \/ \E r \in DOMAIN rounds, i \in 1..MaxRows : SendAnswer(r, i, "ok")
    \/ \E r \in DOMAIN rounds : JoinAll(r)

SpecLifecycle == InitLifecycle /\ [][NextLifecycle]_vars

\* the rows of the push_tokens table that hold device token t
RowsOf(table, t) == {i \in DOMAIN table : table[i].device_token = t}
\* some row delivers to t: it holds t and is active
Deliverable(table, t) == \E i \in RowsOf(table, t) : table[i].is_active
\* the store answers the DELETE /me/push-token in hand in this step
RemoveSucceeds ==
    /\ http.pc = "await_deactivate"
    /\ http'.pc = "replied"
    /\ http'.status = 204
\* the caller of the request in hand owns a row that holds t
CallerOwns(t) ==
    \E i \in RowsOf(push_tokens, t) : push_tokens[i].user_id = http.user

\* C28: push-token lifecycle.  No two rows hold the same device token.
\* When DELETE /me/push-token succeeds for a token of which the caller owns
\* the row, no active row holds the token afterwards; from then on the
\* token gets an active row again only by a POST /me/push-token that
\* registers it, which leaves it one row, active and owned by the
\* registering user; a round that loads its device tokens takes only tokens
\* that an active row of a follower holds at that moment, and sends only
\* to the tokens it loaded: so no round that starts after the DELETE sends
\* to the token until it is registered again.  A DELETE by a user who does
\* not own the row leaves the table as it was.
PushTokenLifecycle ==
    [][/\ \A i, j \in DOMAIN push_tokens' :
             push_tokens'[i].device_token = push_tokens'[j].device_token
             => i = j
       /\ \A t \in {"T1", "T2"} :
            /\ (RemoveSucceeds /\ t = Trim(http.body.device_token))
               => IF CallerOwns(t)
                  THEN ~Deliverable(push_tokens', t)
                  ELSE push_tokens' = push_tokens
            /\ (~Deliverable(push_tokens, t) /\ Deliverable(push_tokens', t))
               => /\ http.route = "POST /me/push-token"
                  /\ http.pc = "await_upsert"
                  /\ http'.status = 200
                  /\ Trim(http.body.device_token) = t
                  /\ \A i \in RowsOf(push_tokens', t) :
                        /\ push_tokens'[i].is_active
                        /\ push_tokens'[i].user_id = http.user
       /\ \A r \in DOMAIN rounds :
            /\ (rounds[r].pc = "await_tokens" /\ rounds'[r].pc # "await_tokens")
               => \A k \in DOMAIN rounds'[r].tokens :
                     \E i \in RowsOf(push_tokens, rounds'[r].tokens[k]) :
                        /\ push_tokens[i].is_active
                        /\ push_tokens[i].user_id
                              \in FollowersOf(rounds[r].input.authorId)
            /\ rounds'[r].sendRequests > rounds[r].sendRequests
               => SentTo(rounds'[r]) = Range(rounds[r].tokens)
            /\ rounds[r].pc = "sending"
               => SentTo(rounds'[r]) \subseteq SentTo(rounds[r])
      ]_vars

\* U1 removed T1, a round that loaded its tokens afterwards sends to T2
\* alone, and the row of T1 is still inactive
PushTokenLifecycleWitness ==
    /\ push_tokens[1] = [user_id |-> "U1", device_token |-> "T1",
                         is_active |-> FALSE]
    /\ Deliverable(push_tokens, "T2")
    /\ rounds[1].pc = "sending"
    /\ SentTo(rounds[1]) = {"T2"}
    /\ http.pc = "idle"

\* the request in hand is a PATCH or DELETE of a recipe by a user whom the
\* auth service resolved
MutationBy(user) ==
    /\ http.route \in {"PATCH /recipes/:id", "DELETE /recipes/:id"}
    /\ http.user = user
\* the recipe that the request names, as the request found it
NamedRecipe == {row \in http.before.recipes : row.id = http.id}

PatchAllOrNothing ==
    ( /\ http.route = "PATCH /recipes/:id"
      /\ http.pc = "replied"
      /\ http.status \in {400, 500} )
    => db = http.before

====
